---- MODULE Spec2Model ----
(***************************************************************************)
(* PubMed Abstract Analyzer (wenjianshaixuan.py).                          *)
(*                                                                         *)
(* Python strings are modelled as sequences of one-character strings, so   *)
(* that strip, lower, split, count, "in" and startswith are computed the   *)
(* way Python computes them.  An optional value (a str or None) is a       *)
(* record [some, val].                                                     *)
(***************************************************************************)
EXTENDS Integers, Sequences, FiniteSets, TLC

VARIABLES
    pubmed_ids_input,  \* text of the "Enter PubMed IDs" text area
    words_input,       \* text of the "Enter words" text input
    pubmed_ids,        \* list built at line 102
    words_to_find,     \* list built at line 103
    pc,                \* position of the script run
    i,                 \* 1-based index of the identifier the loop is at
    response,          \* the HTTP response the fetch is working on
    soup,              \* the parsed page: elements in document order
    abstract,          \* value returned by get_pubmed_abstract
    ret_kind,          \* "return" (line 53), "except" (line 55), "none" before
    results,           \* value returned by analyze_words_in_abstract
    output,            \* the blocks displayed so far, in display order
    requests,          \* the URLs of the HTTP GETs issued so far
    inflight,          \* number of HTTP GETs issued and not yet answered
    escaped,           \* an exception left get_pubmed_abstract
    ua_failed,         \* indices whose user-agent generation raised
    exc,               \* the exception raised inside the current fetch, if any
    fetched            \* per identifier handled: how the fetch returned, and what

vars == <<pubmed_ids_input, words_input, pubmed_ids, words_to_find, pc, i,
          response, soup, abstract, ret_kind, results, output, requests,
          inflight, escaped, ua_failed, exc, fetched>>

----------------------------------------------------------------------------
(* Bounds of the model. *)

MaxAbstractLen == 3
MaxWordsLen == 3
MaxIdsLen == 4
MaxElems == 3

----------------------------------------------------------------------------
(* Python str primitives. *)

NoneV == [some |-> FALSE, val |-> <<>>]
Some(s) == [some |-> TRUE, val |-> s]

\* Python truthiness of a str-or-None value: None and "" are falsy.
Truthy(a) == a.some /\ a.val # <<>>

UpperLetters == <<"A", "B", "C", "D", "E", "F", "G", "H", "I", "J", "K", "L", "M",
                  "N", "O", "P", "Q", "R", "S", "T", "U", "V", "W", "X", "Y", "Z">>
LowerLetters == <<"a", "b", "c", "d", "e", "f", "g", "h", "i", "j", "k", "l", "m",
                  "n", "o", "p", "q", "r", "s", "t", "u", "v", "w", "x", "y", "z">>

LowerTable ==
    [c \in {UpperLetters[k] : k \in 1..Len(UpperLetters)} |->
       LowerLetters[CHOOSE k \in 1..Len(UpperLetters) : UpperLetters[k] = c]]

LowerChar(c) == IF c \in DOMAIN LowerTable THEN LowerTable[c] ELSE c

\* str.lower()
Lower(s) == [k \in 1..Len(s) |-> LowerChar(s[k])]

\* str.isspace() of one character; what \s matches and strip() removes.
IsSpace(c) == c \in {" ", "\n", "\t"}

\* first position at or after k that holds no whitespace, Len(s) + 1 if none
RECURSIVE FirstNonSpace(_, _)
FirstNonSpace(s, k) ==
    IF k <= Len(s) /\ IsSpace(s[k]) THEN FirstNonSpace(s, k + 1) ELSE k

\* last position at or before k that holds no whitespace, 0 if none
RECURSIVE LastNonSpace(_, _)
LastNonSpace(s, k) ==
    IF k >= 1 /\ IsSpace(s[k]) THEN LastNonSpace(s, k - 1) ELSE k

\* str.strip()
Strip(s) == SubSeq(s, FirstNonSpace(s, 1), LastNonSpace(s, Len(s)))

\* t occurs in s at position k
StartsAt(s, t, k) ==
    /\ k + Len(t) - 1 <= Len(s)
    /\ \A j \in 1..Len(t) : s[k + j - 1] = t[j]

\* str.startswith(t)
StartsWith(s, t) == StartsAt(s, t, 1)

\* Python's "t in s" for two strings
Contains(s, t) == \E k \in 1..(Len(s) - Len(t) + 1) : StartsAt(s, t, k)

\* Python's "x in lst" for a list
InList(x, lst) == \E k \in 1..Len(lst) : lst[k] = x

RECURSIVE CountFrom(_, _, _)
CountFrom(s, t, k) ==
    IF k + Len(t) - 1 > Len(s) THEN 0
    ELSE IF StartsAt(s, t, k) THEN 1 + CountFrom(s, t, k + Len(t))
    ELSE CountFrom(s, t, k + 1)

\* Mutant of Count: every occurrence is counted, overlapping ones too.
CountOverlapping(s, t) == Cardinality({k \in 1..(Len(s) - Len(t) + 1) : StartsAt(s, t, k)})

\* str.count(t): scans left to right and resumes after each match.
Count(s, t) == IF t = <<>> THEN Len(s) + 1 ELSE CountFrom(s, t, 1)

RECURSIVE SplitFrom(_, _, _, _)
SplitFrom(s, sep, k, start) ==
    IF k > Len(s) THEN <<SubSeq(s, start, Len(s))>>
    ELSE IF s[k] = sep
         THEN <<SubSeq(s, start, k - 1)>> \o SplitFrom(s, sep, k + 1, k + 1)
         ELSE SplitFrom(s, sep, k + 1, start)

\* str.split(sep) for a one-character separator: empty pieces are kept.
Split(s, sep) == SplitFrom(s, sep, 1, 1)

\* [f(x) for x in lst if f(x)] with f = strip, as at lines 102 and 103
RECURSIVE StripNonEmpty(_)
StripNonEmpty(lst) ==
    IF lst = <<>> THEN <<>>
    ELSE LET h == Strip(Head(lst))
         IN  (IF h # <<>> THEN <<h>> ELSE <<>>) \o StripNonEmpty(Tail(lst))

IsSentenceEnd(c) == c \in {".", "!", "?"}

\* end of the whitespace run that starts at k: the first position after it
RECURSIVE SkipSpace(_, _)
SkipSpace(s, k) ==
    IF k <= Len(s) /\ IsSpace(s[k]) THEN SkipSpace(s, k + 1) ELSE k

RECURSIVE ReSplitFrom(_, _, _)
ReSplitFrom(s, k, start) ==
    IF k > Len(s) THEN <<SubSeq(s, start, Len(s))>>
    ELSE IF IsSpace(s[k]) /\ k > 1 /\ IsSentenceEnd(s[k - 1])
         THEN LET e == SkipSpace(s, k)
              IN  <<SubSeq(s, start, k - 1)>> \o ReSplitFrom(s, e, e)
         ELSE ReSplitFrom(s, k + 1, start)

\* Mutant of ReSplit: the look-behind is dropped, every whitespace run splits.
ReSplitAnySpace(s) ==
    LET RECURSIVE from(_, _)
        from(k, start) ==
          IF k > Len(s) THEN <<SubSeq(s, start, Len(s))>>
          ELSE IF IsSpace(s[k])
               THEN <<SubSeq(s, start, k - 1)>> \o from(SkipSpace(s, k), SkipSpace(s, k))
               ELSE from(k + 1, start)
    IN  from(1, 1)

\* re.split(r'(?<=[.!?])\s+', s): the regex is searched left to right; a match
\* is a maximal whitespace run whose preceding character is '.', '!' or '?'.
ReSplit(s) == ReSplitFrom(s, 1, 1)

----------------------------------------------------------------------------
(* analyze_words_in_abstract.  The dict it returns is a sequence of items  *)
(* [word, count, sentences] in insertion order with unique keys.           *)

HasKey(d, k) == \E n \in 1..Len(d) : d[n].word = k

\* d[k] = item: a new key is appended, an existing key keeps its position.
SetItem(d, item) ==
    IF HasKey(d, item.word)
    THEN [n \in 1..Len(d) |-> IF d[n].word = item.word THEN item ELSE d[n]]
    ELSE Append(d, item)

GetItem(d, k) == d[CHOOSE n \in 1..Len(d) : d[n].word = k]

Keys(d) == {d[n].word : n \in 1..Len(d)}

\* Mutant of ContainingSentences: the sentence is not lower-cased before the test.
RECURSIVE ContainingSentencesCaseSensitive(_, _)
ContainingSentencesCaseSensitive(sentences, word) ==
    IF sentences = <<>> THEN <<>>
    ELSE (IF Contains(Head(sentences), word)
          THEN <<Strip(Head(sentences))>> ELSE <<>>)
         \o ContainingSentencesCaseSensitive(Tail(sentences), word)

RECURSIVE ContainingSentences(_, _)
ContainingSentences(sentences, word) ==
    IF sentences = <<>> THEN <<>>
    ELSE (IF Contains(Lower(Head(sentences)), word)
          THEN <<Strip(Head(sentences))>> ELSE <<>>)
         \o ContainingSentences(Tail(sentences), word)

\* one iteration of the loop at lines 78-92
AnalyzeWord(abstract_lower, sentences, w) ==
    LET word == Lower(w)
    IN  [word |-> word,
         count |-> Count(abstract_lower, word),
         sentences |-> ContainingSentences(sentences, word)]

RECURSIVE AnalyzeLoop(_, _, _, _)
AnalyzeLoop(abstract_lower, sentences, words, res) ==
    IF words = <<>> THEN res
    ELSE AnalyzeLoop(abstract_lower, sentences, Tail(words),
                     SetItem(res, AnalyzeWord(abstract_lower, sentences, Head(words))))

\* Returns [some |-> FALSE] for None, else the dict.
analyze_words_in_abstract(a, words) ==
    IF ~Truthy(a) THEN [some |-> FALSE, val |-> <<>>]
    ELSE [some |-> TRUE,
          val |-> AnalyzeLoop(Lower(a.val), ReSplit(a.val), words, <<>>)]

\* Mutant of ParseWords: empty terms are dropped but the kept ones are not trimmed.
ParseWordsNoStrip(text) == SelectSeq(Split(text, ","), LAMBDA w : Strip(w) # <<>>)

\* line 103
ParseWords(text) == StripNonEmpty(Split(text, ","))

\* line 102
ParseIds(text) == StripNonEmpty(Split(Strip(text), "\n"))

----------------------------------------------------------------------------
(* get_pubmed_abstract, lines 31-53: extraction from the parsed page.      *)
(* The page is the sequence of its elements in document order; an element  *)
(* is [tag, class, id, name, content, text]: class is the list of class    *)
(* tokens (p.get('class', [])), id and name are strings ('' when absent),  *)
(* content is the optional content attribute and text is get_text().       *)

S_abstract == <<"a", "b", "s", "t", "r", "a", "c", "t">>
S_description == <<"d", "e", "s", "c", "r", "i", "p", "t", "i", "o", "n">>
S_citation_abstract ==
    <<"c", "i", "t", "a", "t", "i", "o", "n", "_", "a", "b", "s", "t", "r", "a", "c", "t">>

\* line 50: a paragraph's trimmed text must be longer than this
MinParagraphLen == 100

Div(cls, text) ==
    [tag |-> "div", class |-> cls, id |-> <<>>, name |-> <<>>, content |-> NoneV,
     text |-> text]
Meta(name, content) ==
    [tag |-> "meta", class |-> <<>>, id |-> <<>>, name |-> name, content |-> content,
     text |-> <<>>]
Para(cls, id, text) ==
    [tag |-> "p", class |-> cls, id |-> id, name |-> <<>>, content |-> NoneV,
     text |-> text]

\* soup.find(...) and the first hit of the for loop: the least of the indices
\* of the matching elements, 0 if there is none
FirstHit(hits) == IF hits = {} THEN 0 ELSE CHOOSE k \in hits : \A j \in hits : k <= j

\* soup.find('div', {'class': 'abstract'}): one of the class tokens is 'abstract'
IsAbstractDiv(e) == e.tag = "div" /\ InList(S_abstract, e.class)

\* soup.find('meta', {'name': n})
IsMetaNamed(e, n) == e.tag = "meta" /\ e.name = n

\* tag.get('content', '')
ContentOrEmpty(e) == IF e.content.some THEN e.content.val ELSE <<>>

\* Mutant of ParagraphQualifies: the length of the untrimmed text is tested.
ParagraphQualifiesUntrimmed(e) ==
    /\ e.tag = "p"
    /\ Len(e.text) > MinParagraphLen
    /\ (InList(S_abstract, e.class) \/ Contains(e.id, S_abstract))

\* line 50: 'abstract' in p.get('class', []) is membership in the token list,
\* 'abstract' in p.get('id', '') is a substring test
ParagraphQualifies(e) ==
    /\ e.tag = "p"
    /\ Len(Strip(e.text)) > MinParagraphLen
    /\ (InList(S_abstract, e.class) \/ Contains(e.id, S_abstract))

\* lines 33-35
Method1(page) ==
    LET k == FirstHit({n \in 1..Len(page) : IsAbstractDiv(page[n])})
    IN  IF k # 0 THEN Some(Strip(page[k].text)) ELSE NoneV

\* lines 38-40, run when abstract is falsy: abstract keeps its value if no tag is found
Method2(page, prev) ==
    LET k == FirstHit({n \in 1..Len(page) : IsMetaNamed(page[n], S_description)})
    IN  IF k # 0 THEN Some(Strip(ContentOrEmpty(page[k]))) ELSE prev

\* lines 43-45
Method3(page, prev) ==
    LET k == FirstHit({n \in 1..Len(page) : IsMetaNamed(page[n], S_citation_abstract)})
    IN  IF k # 0 THEN Some(Strip(ContentOrEmpty(page[k]))) ELSE prev

\* lines 48-52
Method4(page, prev) ==
    LET k == FirstHit({n \in 1..Len(page) : ParagraphQualifies(page[n])})
    IN  IF k # 0 THEN Some(Strip(page[k].text)) ELSE prev

\* Mutant of ExtractAbstract: the "if not abstract" guards are dropped, so a
\* later method replaces the value of an earlier one.
ExtractAbstractLastWins(page) ==
    Method4(page, Method3(page, Method2(page, Method1(page))))

\* lines 31-53
ExtractAbstract(page) ==
    LET a1 == Method1(page)
        a2 == IF ~Truthy(a1) THEN Method2(page, a1) ELSE a1
        a3 == IF ~Truthy(a2) THEN Method3(page, a2) ELSE a2
        a4 == IF ~Truthy(a3) THEN Method4(page, a3) ELSE a3
    IN  a4

----------------------------------------------------------------------------
(* Input sets. *)

RECURSIVE StrUpTo(_, _)
StrUpTo(alphabet, n) ==
    IF n = 0 THEN {<<>>}
    ELSE LET shorter == StrUpTo(alphabet, n - 1)
         IN  shorter \cup {Append(s, c) : s \in shorter, c \in alphabet}

AbstractAlphabet == {"a", "A", ".", " "}
WordsAlphabet == {"a", "A", ".", " ", ","}

SampleAbstracts ==
    { <<"C", "a", "t", "s", " ", "a", "r", "e", " ", "g", "r", "e", "a", "t", ".", " ",
        "D", "o", "g", "s", " ", "a", "r", "e", " ", "g", "r", "e", "a", "t", " ",
        "t", "o", "o", "!">>,
      <<"a", "b", "s", "t", "r", "a", "c", "t", "a", "b", "s", "t", "r", "a", "c", "t",
        "a", "b", "s", "t", "r", "a", "c", "t">>,
      <<"C", "A", "N", "C", "E", "R", " ", "i", "s", " ", "s", "t", "u", "d", "i", "e",
        "d", ".">>,
      <<"A", "!", " ", ".", "?", "\n", "a">>,
      <<"A", ".", " ", "a", ".">>,
      <<"a", ".", " ", "A">> }

SampleWords ==
    { <<"g", "r", "e", "a", "t">>,
      <<"a", "b", "s", "t", "r", "a", "c", "t">>,
      <<"c", "a", "n", "c", "e", "r">>,
      <<"G", "r", "e", "a", "t", ",", " ", "t", ".", " ", "d", ",", "g", "r", "e", "a", "t">>,
      <<" ", "A", ",", "a">> }

AnalyzeAbstracts == StrUpTo(AbstractAlphabet, MaxAbstractLen) \cup SampleAbstracts
AnalyzeWordsInputs == StrUpTo(WordsAlphabet, MaxWordsLen) \cup SampleWords

----------------------------------------------------------------------------
(* The analyzer alone: the call at line 110 on the terms of line 103.      *)

InitAnalyze ==
    /\ abstract \in {Some(a) : a \in AnalyzeAbstracts} \cup {NoneV}
    /\ words_input \in AnalyzeWordsInputs
    /\ pubmed_ids_input = <<>>
    /\ pubmed_ids = <<>>
    /\ words_to_find = <<>>
    /\ pc = "call"
    /\ i = 1
    /\ response = NoneV
    /\ soup = <<>>
    /\ ret_kind = "none"
    /\ results = [some |-> FALSE, val |-> <<>>]
    /\ output = <<>>
    /\ requests = <<>>
    /\ inflight = 0
    /\ escaped = FALSE
    /\ ua_failed = {}
    /\ exc = NoneV
    /\ fetched = <<>>

AnalyzeCall ==
    /\ pc = "call"
    /\ words_to_find' = ParseWords(words_input)
    /\ results' = analyze_words_in_abstract(abstract, words_to_find')
    /\ pc' = "returned"
    /\ UNCHANGED <<pubmed_ids_input, words_input, pubmed_ids, i, response, soup,
                   abstract, ret_kind, output, requests, inflight, escaped, ua_failed,
                   exc, fetched>>

NextAnalyze == AnalyzeCall

SpecAnalyze == InitAnalyze /\ [][NextAnalyze]_vars

----------------------------------------------------------------------------
(* The script run started by the Analyze button, lines 101-123, with the   *)
(* steps of get_pubmed_abstract, lines 19-55, in between.                  *)

S_Error == <<"E", "r", "r", "o", "r">>
ErrorPrefix == <<"E", "r", "r", "o", "r", " ", "f", "e", "t", "c", "h", "i", "n", "g", " ", "P", "u", "b", "M", "e", "d", " ", "a", "r", "t", "i", "c", "l", "e", ":", " ">>
BaseUrl == <<"h", "t", "t", "p", "s", ":", "/", "/", "p", "u", "b", "m", "e", "d", ".", "n", "c", "b", "i", ".", "n", "l", "m", ".", "n", "i", "h", ".", "g", "o", "v", "/">>
CouldNotFind == <<"C", "o", "u", "l", "d", " ", "n", "o", "t", " ", "f", "i", "n", "d", " ", "t", "h", "e", " ", "a", "b", "s", "t", "r", "a", "c", "t", " ", "f", "o", "r", " ", "P", "u", "b", "M", "e", "d", " ", "I", "D", " ">>

\* line 21
Url(pubmed_id) == BaseUrl \o pubmed_id \o <<"/">>

\* Mutant of TryCovers: the try block starts at the request, after the headers.
TryCoversFromRequest(stage) == stage # "ua"

\* lines 19 and 54: every statement of the function body is inside the try
TryCovers(stage) == TRUE

\* Mutant of IssueGet: the request is sent a second time.
IssueGetTwice(reqs, url) == Append(Append(reqs, url), url)

\* line 26: one requests.get per call
IssueGet(reqs, url) == Append(reqs, url)

MsgUserAgent == <<"n", "o", " ", "a", "g", "e", "n", "t">>
MsgConnection == <<"r", "e", "f", "u", "s", "e", "d">>
MsgStatus == <<"4", "0", "4", " ", "C", "l", "i", "e", "n", "t", " ", "E", "r", "r", "o", "r">>
MsgMarkup == <<"b", "a", "d", " ", "m", "a", "r", "k", "u", "p">>

NoResponse == [kind |-> "none", status |-> 0, msg |-> <<>>, parse_ok |-> TRUE, page |-> <<>>]

HandlerPages ==
    { << Div(<<S_abstract>>, <<" ", "A", ".", " ", "a", ".", " ">>) >>,
      << Div(<<S_abstract>>, <<"E", "r", "r", "o", "r", " ", "r", "a", "t", "e", "s", " ", "f", "e", "l", "l", ".">>) >>,
      << Div(<<S_abstract>>, <<" ">>) >>,
      << >> }

\* what requests.get can come back with
Responses ==
    { [kind |-> "raise", status |-> 0, msg |-> MsgConnection, parse_ok |-> TRUE,
       page |-> <<>>],
      [kind |-> "response", status |-> 404, msg |-> MsgStatus, parse_ok |-> TRUE,
       page |-> <<>>],
      [kind |-> "response", status |-> 200, msg |-> MsgMarkup, parse_ok |-> FALSE,
       page |-> <<>>] }
    \cup {[kind |-> "response", status |-> 200, msg |-> <<>>, parse_ok |-> TRUE,
           page |-> pg] : pg \in HandlerPages}

IdsAlphabet == {"1", "2", "\n", " "}

HandlerWordsInputs == { <<>>, <<" ", "A", ",", "a", ".">> }

Init ==
    /\ pubmed_ids_input \in StrUpTo(IdsAlphabet, MaxIdsLen)
    /\ words_input \in HandlerWordsInputs
    /\ pubmed_ids = <<>>
    /\ words_to_find = <<>>
    /\ pc = "idle"
    /\ i = 1
    /\ response = NoResponse
    /\ soup = <<>>
    /\ abstract = NoneV
    /\ ret_kind = "none"
    /\ results = [some |-> FALSE, val |-> <<>>]
    /\ output = <<>>
    /\ requests = <<>>
    /\ inflight = 0
    /\ escaped = FALSE
    /\ ua_failed = {}
    /\ exc = NoneV
    /\ fetched = <<>>

\* an exception e raised at a stage of get_pubmed_abstract: line 55 returns the
\* error string if the stage is inside the try, else e leaves the function
Raise(stage, e) ==
    /\ exc' = Some(e)
    /\ IF TryCovers(stage)
       THEN /\ abstract' = Some(ErrorPrefix \o e)
            /\ ret_kind' = "except"
            /\ pc' = "display"
            /\ escaped' = escaped
       ELSE /\ escaped' = TRUE
            /\ pc' = "aborted"
            /\ UNCHANGED <<abstract, ret_kind>>

\* lines 101-103
ClickAnalyze ==
    /\ pc = "idle"
    /\ pubmed_ids' = ParseIds(pubmed_ids_input)
    /\ words_to_find' = ParseWords(words_input)
    /\ i' = 1
    /\ pc' = "loop"
    /\ UNCHANGED <<pubmed_ids_input, words_input, response, soup, abstract, ret_kind,
                   results, output, requests, inflight, escaped, ua_failed, exc, fetched>>

\* lines 104-106: the next identifier's header is shown and its fetch is called
Subheader ==
    /\ pc = "loop"
    /\ i <= Len(pubmed_ids)
    /\ output' = Append(output, [id |-> pubmed_ids[i], kind |-> "pending", text |-> <<>>,
                                 entries |-> <<>>, warning |-> FALSE])
    /\ ret_kind' = "none"
    /\ exc' = NoneV
    /\ response' = NoResponse
    /\ pc' = "ua"
    /\ UNCHANGED <<pubmed_ids_input, words_input, pubmed_ids, words_to_find, i, soup,
                   abstract, results, requests, inflight, escaped, ua_failed, fetched>>

\* line 104: the list is exhausted
Finish ==
    /\ pc = "loop"
    /\ i > Len(pubmed_ids)
    /\ pc' = "done"
    /\ UNCHANGED <<pubmed_ids_input, words_input, pubmed_ids, words_to_find, i, response,
                   soup, abstract, ret_kind, results, output, requests, inflight, escaped,
                   ua_failed, exc, fetched>>

\* lines 22-24 and 7-9: UserAgent() or .random may raise
UserAgent ==
    /\ pc = "ua"
    /\ \E ok \in BOOLEAN :
         IF ok
         THEN /\ pc' = "get"
              /\ UNCHANGED <<abstract, ret_kind, escaped, exc, ua_failed>>
         ELSE /\ Raise("ua", MsgUserAgent)
              /\ ua_failed' = ua_failed \cup {i}
    /\ UNCHANGED <<pubmed_ids_input, words_input, pubmed_ids, words_to_find, i, response,
                   soup, results, output, requests, inflight, fetched>>

\* line 26: the GET is sent
HttpGet ==
    /\ pc = "get"
    /\ requests' = IssueGet(requests, Url(pubmed_ids[i]))
    /\ inflight' = inflight + (Len(requests') - Len(requests))
    /\ pc' = "wait"
    /\ UNCHANGED <<pubmed_ids_input, words_input, pubmed_ids, words_to_find, i, response,
                   soup, abstract, ret_kind, results, output, escaped, ua_failed, exc,
                   fetched>>

\* line 26: requests.get returns a response or raises
HttpResponse ==
    /\ pc = "wait"
    /\ inflight' = inflight - 1
    /\ \E r \in Responses :
         IF r.kind = "raise"
         THEN /\ Raise("request", r.msg)
              /\ UNCHANGED response
         ELSE /\ response' = r
              /\ pc' = "status"
              /\ UNCHANGED <<abstract, ret_kind, escaped, exc>>
    /\ UNCHANGED <<pubmed_ids_input, words_input, pubmed_ids, words_to_find, i, soup,
                   results, output, requests, ua_failed, fetched>>

\* line 27
RaiseForStatus ==
    /\ pc = "status"
    /\ IF response.status >= 400
       THEN Raise("status", response.msg)
       ELSE /\ pc' = "parse"
            /\ UNCHANGED <<abstract, ret_kind, escaped, exc>>
    /\ UNCHANGED <<pubmed_ids_input, words_input, pubmed_ids, words_to_find, i, response,
                   soup, results, output, requests, inflight, ua_failed, fetched>>

\* lines 29-53
ParseAndExtract ==
    /\ pc = "parse"
    /\ IF ~response.parse_ok
       THEN /\ Raise("parse", response.msg)
            /\ UNCHANGED soup
       ELSE /\ soup' = response.page
            /\ abstract' = ExtractAbstract(soup')
            /\ ret_kind' = "return"
            /\ pc' = "display"
            /\ UNCHANGED <<escaped, exc>>
    /\ UNCHANGED <<pubmed_ids_input, words_input, pubmed_ids, words_to_find, i, response,
                   results, output, requests, inflight, ua_failed, fetched>>

\* lines 107-123: the block shown for a value returned by get_pubmed_abstract
Block(pubmed_id, a, res) ==
    IF Truthy(a) /\ ~StartsWith(a.val, S_Error)
    THEN [id |-> pubmed_id, kind |-> "abstract", text |-> a.val,
          entries |-> res.val,
          warning |-> ~(res.some /\ res.val # <<>>)]
    ELSE [id |-> pubmed_id, kind |-> "error",
          text |-> CouldNotFind \o pubmed_id \o <<".", "\n">>
                   \o (IF Truthy(a) THEN a.val ELSE <<>>),
          entries |-> <<>>, warning |-> FALSE]

\* line 109: st.text_area("Abstract", abstract, height=200) is given no key, so
\* the widget's identity is its type and arguments; Streamlit raises
\* DuplicateWidgetID (StreamlitDuplicateElementId) when a run creates a second
\* widget of the same identity, and the exception ends the script run.
TextAreaIsDuplicate(out, value) ==
    \E k \in 1..Len(out) : out[k].kind = "abstract" /\ out[k].text = value

\* lines 107-123
Display ==
    /\ pc = "display"
    /\ fetched' = Append(fetched, [ret |-> ret_kind, value |-> abstract])
    /\ exc' = NoneV
    /\ IF /\ Truthy(abstract) /\ ~StartsWith(abstract.val, S_Error)
          /\ TextAreaIsDuplicate(output, abstract.val)
       THEN /\ pc' = "aborted"
            /\ UNCHANGED <<results, output, i>>
       ELSE /\ results' = IF Truthy(abstract) /\ ~StartsWith(abstract.val, S_Error)
                          THEN analyze_words_in_abstract(abstract, words_to_find)
                          ELSE results
            /\ output' = [output EXCEPT ![i] = Block(pubmed_ids[i], abstract, results')]
            /\ pc' = "loop"
            /\ i' = i + 1
    /\ UNCHANGED <<pubmed_ids_input, words_input, pubmed_ids, words_to_find, response,
                   soup, abstract, ret_kind, requests, inflight, escaped, ua_failed>>

Next ==
    \/ ClickAnalyze
    \/ Subheader
    \/ Finish
    \/ UserAgent
    \/ HttpGet
    \/ HttpResponse
    \/ RaiseForStatus
    \/ ParseAndExtract
    \/ Display

Spec == Init /\ [][Next]_vars

----------------------------------------------------------------------------
(* Properties of the script run. *)

Complete(k) == output[k].kind # "pending"

\* C1: whatever the fetch outcomes, the run shows one block per input
\* identifier, in input order: blocks are only ever added for the next
\* identifier, nothing ends the run before the last identifier, and at the end
\* every identifier has its completed block.
C1_OneBlockPerIdentifierInOrder ==
    /\ pc # "aborted"
    /\ Len(output) <= Len(pubmed_ids)
    /\ \A k \in 1..Len(output) : output[k].id = pubmed_ids[k]
    /\ pc = "done" =>
         /\ Len(output) = Len(pubmed_ids)
         /\ \A k \in 1..Len(output) : Complete(k)

\* What does hold of the run: it is ended early only by the text area of line
\* 109, never by a fetch that failed or found nothing.
RunEndsEarlyOnlyAtTextArea ==
    pc = "aborted" =>
      /\ ~escaped
      /\ fetched[Len(fetched)].ret = "return"
      /\ Truthy(fetched[Len(fetched)].value)
      /\ TextAreaIsDuplicate(output, fetched[Len(fetched)].value.val)

\* C2: get_pubmed_abstract never raises to its caller; when user-agent
\* generation, the request, the status check or the parsing fails, it returns
\* the error string, which includes the text of the underlying error.
C2_FetchNeverRaises ==
    /\ ~escaped
    /\ exc.some =>
         /\ pc = "display"
         /\ ret_kind = "except"
         /\ abstract.some
         /\ StartsWith(abstract.val, ErrorPrefix)
         /\ Contains(abstract.val, exc.val)
         /\ exc.val # <<>>

\* C2 witness: user-agent generation raised, before any request was sent, and
\* the fetch returned the error string.
C2_Witness ==
    /\ pc = "display"
    /\ exc = Some(MsgUserAgent)
    /\ i \in ua_failed
    /\ requests = <<>>
    /\ abstract = Some(ErrorPrefix \o MsgUserAgent)

\* C3 as stated: a block shows the abstract and its analysis exactly when the
\* fetch returned (line 53) a non-empty text, and the error notice exactly when
\* it returned the error string (line 55) or no abstract.
C3_AbstractShownIffExtracted ==
    \A k \in {n \in 1..Len(fetched) : Complete(n)} :
      /\ output[k].kind = "abstract"
           <=> (fetched[k].ret = "return" /\ Truthy(fetched[k].value))
      /\ output[k].kind = "error"
           <=> (fetched[k].ret = "except" \/ ~Truthy(fetched[k].value))

ExpectedUrl(pubmed_id) == <<"h", "t", "t", "p", "s", ":", "/", "/", "p", "u", "b", "m", "e", "d", ".", "n", "c", "b", "i", ".", "n", "l", "m", ".", "n", "i", "h", ".", "g", "o", "v", "/">> \o pubmed_id \o <<"/">>

\* indices of the identifiers whose fetch has got as far as sending its request
Requested ==
    {k \in 1..Len(pubmed_ids) :
       /\ k \notin ua_failed
       /\ k < i \/ (k = i /\ pc \in {"wait", "status", "parse", "display", "aborted"})}

RECURSIVE UrlsOf(_)
UrlsOf(S) ==
    IF S = {} THEN <<>>
    ELSE LET k == CHOOSE x \in S : \A y \in S : x <= y
         IN  <<ExpectedUrl(pubmed_ids[k])>> \o UrlsOf(S \ {k})

\* while a request is in flight it is the only one, and the blocks of all
\* earlier identifiers are complete
Sequential ==
    /\ inflight \in {0, 1}
    /\ inflight = 1 =>
         /\ pc = "wait"
         /\ Len(output) = i
         /\ \A k \in 1..(i - 1) : Complete(k)

\* C9 as stated: exactly one HTTP GET is issued per input identifier, one
\* identifier after another, never two in flight.
C9_ExactlyOneGetPerIdentifier ==
    /\ Sequential
    /\ pc = "done" => requests = UrlsOf(1..Len(pubmed_ids))

\* C9 amended: each identifier's fetch issues at most one HTTP GET: exactly one
\* when its user-agent generation succeeds and none when that raises;
\* identifiers are handled one after another and never are two requests in
\* flight.
C9_AtMostOneGetPerIdentifier ==
    /\ Sequential
    /\ requests = UrlsOf(Requested)

\* C9 witness: the first identifier's user-agent generation raised, so the only
\* request of the run is the second identifier's.
C9_Witness ==
    /\ pc = "done"
    /\ Len(pubmed_ids) = 2
    /\ ua_failed = {1}
    /\ requests = <<ExpectedUrl(pubmed_ids[2])>>
    /\ Complete(1) /\ Complete(2)

----------------------------------------------------------------------------
(* Properties of the analyzer. *)

Returned == pc = "returned" /\ results.some

\* the entry the result holds for input term w
EntryOf(w) == GetItem(results.val, Lower(w))

OccPositions(s, t) == {k \in 1..(Len(s) - Len(t) + 1) : StartsAt(s, t, k)}

Dist(p, q) == IF p >= q THEN p - q ELSE q - p

\* the largest number of pairwise non-overlapping occurrences of t in s
MaxNonOverlap(s, t) ==
    LET packs == {P \in SUBSET OccPositions(s, t) :
                    \A p, q \in P : p # q => Dist(p, q) >= Len(t)}
    IN  CHOOSE n \in 0..Len(s) :
          /\ \E P \in packs : Cardinality(P) = n
          /\ \A P \in packs : Cardinality(P) <= n

Abstract3 ==
    <<"a", "b", "s", "t", "r", "a", "c", "t", "a", "b", "s", "t", "r", "a", "c", "t",
      "a", "b", "s", "t", "r", "a", "c", "t">>
CancerText ==
    <<"C", "A", "N", "C", "E", "R", " ", "i", "s", " ", "s", "t", "u", "d", "i", "e",
      "d", ".">>

\* C5: for a non-empty abstract, each term's count is the number of
\* non-overlapping occurrences of the lower-cased term as a substring of the
\* lower-cased abstract, word boundaries playing no part; "abstract" occurs 3
\* times in "abstractabstractabstract" and "cancer" once in "CANCER is studied.".
C5_CountIsSubstringCount ==
    Returned =>
      /\ \A n \in 1..Len(words_to_find) :
           EntryOf(words_to_find[n]).count
             = MaxNonOverlap(Lower(abstract.val), Lower(words_to_find[n]))
      /\ \A n \in 1..Len(words_to_find) :
           /\ (abstract.val = Abstract3
                 /\ words_to_find[n] = <<"a", "b", "s", "t", "r", "a", "c", "t">>)
                => EntryOf(words_to_find[n]).count = 3
           /\ (abstract.val = CancerText
                 /\ words_to_find[n] = <<"c", "a", "n", "c", "e", "r">>)
                => EntryOf(words_to_find[n]).count = 1

\* C5 witness: occurrences of "aa" overlap in "Aaa" and only one is counted.
C5_Witness ==
    /\ Returned
    /\ abstract.val = <<"A", "a", "a">>
    /\ words_to_find = << <<"a", "A">> >>
    /\ EntryOf(<<"a", "A">>).count = 1

\* positions after which the abstract breaks: '.', '!' or '?' followed by whitespace
Breaks(s) == {k \in 1..(Len(s) - 1) : IsSentenceEnd(s[k]) /\ IsSpace(s[k + 1])}

\* <<a, b>>: a sentence occupies positions a..b of s
SentenceSpans(s) ==
    {sp \in (1..(Len(s) + 1)) \X (0..Len(s)) :
       LET a == sp[1]
           b == sp[2]
       IN  /\ \/ a = 1
              \/ \E k \in Breaks(s) :
                   /\ k < a
                   /\ \A j \in (k + 1)..(a - 1) : IsSpace(s[j])
                   /\ a > k + 1
                   /\ (a <= Len(s) => ~IsSpace(s[a]))
           /\ b \in Breaks(s) \/ b = Len(s)
           /\ b >= a \/ (a = Len(s) + 1 /\ b = Len(s))
           /\ \A k \in Breaks(s) : ~(a <= k /\ k < b)}

RECURSIVE SpansInOrder(_)
SpansInOrder(S) ==
    IF S = {} THEN <<>>
    ELSE LET first == CHOOSE sp \in S : \A o \in S : sp[1] <= o[1]
         IN  <<first>> \o SpansInOrder(S \ {first})

RECURSIVE SelectMatching(_, _, _)
SelectMatching(s, spans, term) ==
    IF spans = <<>> THEN <<>>
    ELSE LET sent == Strip(SubSeq(s, Head(spans)[1], Head(spans)[2]))
         IN  (IF Contains(Lower(sent), Lower(term)) THEN <<sent>> ELSE <<>>)
             \o SelectMatching(s, Tail(spans), term)

\* C6: matchingSentences is the subsequence, in document order and original
\* casing, of the trimmed sentences whose lower-cased form contains the
\* lower-cased term; sentences break after '.', '!' or '?' followed by
\* whitespace, the punctuation staying with the sentence before it and the
\* whitespace belonging to no sentence.
C6_MatchingSentences ==
    Returned =>
      \A n \in 1..Len(words_to_find) :
        EntryOf(words_to_find[n]).sentences
          = SelectMatching(abstract.val, SpansInOrder(SentenceSpans(abstract.val)),
                           words_to_find[n])

\* C6 witness: two of three sentences match, in upper and lower case.
C6_Witness ==
    /\ Returned
    /\ abstract.val = <<"A", "!", " ", ".", "?", "\n", "a">>
    /\ words_to_find = << <<"a">> >>
    /\ EntryOf(<<"a">>).sentences = << <<"A", "!">>, <<"a">> >>

\* the comma-free pieces of the words input
CommaPieces(s) ==
    {SubSeq(s, sp[1], sp[2]) : sp \in
       {sp \in (1..(Len(s) + 1)) \X (0..Len(s)) :
          /\ sp[2] >= sp[1] - 1
          /\ \A j \in sp[1]..sp[2] : s[j] # ","
          /\ sp[1] = 1 \/ s[sp[1] - 1] = ","
          /\ sp[2] = Len(s) \/ s[sp[2] + 1] = ","}}

NormalisedTerms(s) == {Lower(Strip(t)) : t \in {u \in CommaPieces(s) : Strip(u) # <<>>}}

\* C7: for a non-empty abstract the result has one entry per input term, keyed
\* by the term lower-cased and trimmed; terms that coincide after that share one
\* key, and its entry is the entry the term gets when analysed on its own.
C7_OneEntryPerTerm ==
    Returned =>
      /\ Keys(results.val) = NormalisedTerms(words_input)
      /\ Cardinality(Keys(results.val)) = Len(results.val)
      /\ \A k \in Keys(results.val) :
           GetItem(results.val, k) = GetItem(analyze_words_in_abstract(abstract, <<k>>).val, k)

\* C7 witness: " A" and "a" coincide after normalisation and share one entry.
C7_Witness ==
    /\ Returned
    /\ words_input = <<" ", "A", ",", "a">>
    /\ Len(words_to_find) = 2
    /\ Len(results.val) = 1
    /\ abstract.val = <<"a", ".", " ", "A">>
    /\ results.val[1] = [word |-> <<"a">>, count |-> 2,
                         sentences |-> << <<"a", ".">>, <<"A">> >>]

HasSpace(s) == \E k \in 1..Len(s) : IsSpace(s[k])

\* C10 as stated: in every entry the count is positive exactly when
\* matchingSentences is non-empty, for every term.
C10_Original ==
    Returned =>
      \A n \in 1..Len(results.val) :
        (results.val[n].count > 0) <=> (results.val[n].sentences # <<>>)

\* C10 amended: listed sentences imply a positive count for every term, and a
\* positive count implies listed sentences for every term without whitespace.
C10_CountAndSentencesAgree ==
    Returned =>
      \A n \in 1..Len(results.val) :
        /\ results.val[n].sentences # <<>> => results.val[n].count > 0
        /\ ~HasSpace(results.val[n].word) =>
             (results.val[n].count > 0 => results.val[n].sentences # <<>>)

\* C10 witness: a term with sentence punctuation and no whitespace that occurs
\* in both sentences of the abstract.
C10_Witness ==
    /\ Returned
    /\ abstract.val = <<"A", ".", " ", "a", ".">>
    /\ Len(results.val) = 1
    /\ results.val[1].word = <<"a", ".">>
    /\ results.val[1].count = 2
    /\ Len(results.val[1].sentences) = 2

----------------------------------------------------------------------------
(* The extraction alone: lines 31-53 on a parsed page.                     *)

Pad(c, n) == [k \in 1..n |-> c]

S_abstract_content ==
    <<"a", "b", "s", "t", "r", "a", "c", "t", "-", "c", "o", "n", "t", "e", "n", "t">>
S_my_abstract_1 == <<"m", "y", "-", "a", "b", "s", "t", "r", "a", "c", "t", "-", "1">>
S_main == <<"m", "a", "i", "n">>

DivElems ==
    {Div(c, t) : c \in { <<S_main, S_abstract>>, <<S_abstract_content>> },
                 t \in { <<" ", "\n">>, <<" ", "d", " ">>, <<"e">> }}

MetaElems ==
    {Meta(n, c) : n \in {S_description, S_citation_abstract},
                  c \in {NoneV, Some(<<" ", "m", "\n">>), Some(<<"n">>)}}

\* paragraph texts around the length limit: trimmed length 100 (102 untrimmed),
\* 101 (103 untrimmed) and 101
ParaTexts ==
    { <<" ">> \o Pad("x", MinParagraphLen) \o <<"\n">>,
      <<" ">> \o Pad("y", MinParagraphLen + 1) \o <<"\n">>,
      Pad("z", MinParagraphLen + 1) }

ParaElems ==
    {Para(ci[1], ci[2], t) :
       ci \in { << <<S_main, S_abstract>>, <<>> >>,
                << <<S_abstract_content>>, <<>> >>,
                << <<>>, S_my_abstract_1 >> },
       t \in ParaTexts}
    \cup {Para(<<S_main>>, S_main, Pad("z", MinParagraphLen + 1))}

Elems == DivElems \cup MetaElems \cup ParaElems

RECURSIVE PagesUpTo(_)
PagesUpTo(n) ==
    IF n = 0 THEN {<<>>}
    ELSE LET shorter == PagesUpTo(n - 1)
         IN  shorter \cup {Append(pg, e) : pg \in shorter, e \in Elems}

\* pages on which every method finds its element and the earlier ones yield nothing
FallThroughPages ==
    {<<Div(<<S_abstract>>, <<" ">>), Meta(S_description, NoneV),
       Meta(S_citation_abstract, c), Para(<<S_abstract>>, <<>>, t)>> :
       c \in {Some(<<" ">>), Some(<<"n">>)}, t \in ParaTexts}

InitExtract ==
    /\ soup \in PagesUpTo(MaxElems) \cup FallThroughPages
    /\ abstract = NoneV
    /\ words_input = <<>>
    /\ pubmed_ids_input = <<>>
    /\ pubmed_ids = <<>>
    /\ words_to_find = <<>>
    /\ pc = "call"
    /\ i = 1
    /\ response = NoneV
    /\ ret_kind = "none"
    /\ results = [some |-> FALSE, val |-> <<>>]
    /\ output = <<>>
    /\ requests = <<>>
    /\ inflight = 0
    /\ escaped = FALSE
    /\ ua_failed = {}
    /\ exc = NoneV
    /\ fetched = <<>>

ExtractCall ==
    /\ pc = "call"
    /\ abstract' = ExtractAbstract(soup)
    /\ ret_kind' = "return"
    /\ pc' = "returned"
    /\ UNCHANGED <<pubmed_ids_input, words_input, pubmed_ids, words_to_find, i, response,
                   soup, results, output, requests, inflight, escaped, ua_failed,
                   exc, fetched>>

NextExtract == ExtractCall

SpecExtract == InitExtract /\ [][NextExtract]_vars

----------------------------------------------------------------------------
(* Properties of the extraction. *)

Extracted == pc = "returned" /\ ret_kind = "return"

FirstIndex(S) == CHOOSE k \in S : \A j \in S : k <= j

\* what each method yields on its own: the trimmed text of the first element
\* of its kind, <<>> when there is no such element or its text is blank
Yield1 ==
    LET S == {k \in 1..Len(soup) : soup[k].tag = "div" /\ InList(S_abstract, soup[k].class)}
    IN  IF S = {} THEN <<>> ELSE Strip(soup[FirstIndex(S)].text)

YieldMeta(n) ==
    LET S == {k \in 1..Len(soup) : soup[k].tag = "meta" /\ soup[k].name = n}
    IN  IF S = {} \/ ~soup[FirstIndex(S)].content.some THEN <<>>
        ELSE Strip(soup[FirstIndex(S)].content.val)

\* method 4 with the class test read as "some class token contains 'abstract'"
Yield4Substring ==
    LET S == {k \in 1..Len(soup) :
                /\ soup[k].tag = "p"
                /\ Len(Strip(soup[k].text)) > MinParagraphLen
                /\ \/ \E c \in 1..Len(soup[k].class) : Contains(soup[k].class[c], S_abstract)
                   \/ Contains(soup[k].id, S_abstract)}
    IN  IF S = {} THEN <<>> ELSE Strip(soup[FirstIndex(S)].text)

\* method 4 with the class test read as "some class token is 'abstract'"
Yield4Token ==
    LET S == {k \in 1..Len(soup) :
                /\ soup[k].tag = "p"
                /\ Len(Strip(soup[k].text)) > MinParagraphLen
                /\ \/ \E c \in 1..Len(soup[k].class) : soup[k].class[c] = S_abstract
                   \/ Contains(soup[k].id, S_abstract)}
    IN  IF S = {} THEN <<>> ELSE Strip(soup[FirstIndex(S)].text)

\* C4: the methods are applied in the order container, meta description, meta
\* citation_abstract, paragraph scan; the result is the value of the first one
\* that yields a non-empty trimmed text, a container with text wins over a
\* citation_abstract meta tag, and when no method yields a value the result is
\* the absent abstract.
C4_FirstNonEmptyMethodWins ==
    Extracted =>
      LET y1 == Yield1
          y2 == YieldMeta(S_description)
          y3 == YieldMeta(S_citation_abstract)
          y4 == Yield4Token
      IN  IF y1 # <<>> THEN abstract = Some(y1)
          ELSE IF y2 # <<>> THEN abstract = Some(y2)
          ELSE IF y3 # <<>> THEN abstract = Some(y3)
          ELSE IF y4 # <<>> THEN abstract = Some(y4)
          ELSE ~Truthy(abstract)

\* C4 witness: the container is found but blank, the description has no content,
\* and the citation_abstract value is returned although a paragraph qualifies.
C4_Witness ==
    /\ Extracted
    /\ Len(soup) = 4
    /\ Yield1 = <<>> /\ soup[1].tag = "div" /\ InList(S_abstract, soup[1].class)
    /\ soup[2].name = S_description
    /\ Yield4Token # <<>>
    /\ abstract = Some(<<"n">>)

MethodsOneToThreeEmpty ==
    Yield1 = <<>> /\ YieldMeta(S_description) = <<>> /\ YieldMeta(S_citation_abstract) = <<>>

\* C8 as stated: method 4 returns the trimmed text of the first paragraph whose
\* class list or id contains the substring "abstract" (class "abstract-content"
\* qualifies) and whose trimmed text is longer than 100 characters.
C8_Original ==
    (Extracted /\ MethodsOneToThreeEmpty) =>
      IF Yield4Substring # <<>> THEN abstract = Some(Yield4Substring)
      ELSE ~Truthy(abstract)

\* C8 amended: method 4 returns the trimmed text of the first paragraph that
\* has a class token equal to "abstract" or an id containing the substring
\* "abstract", and whose trimmed text is longer than 100 characters; a
\* paragraph of 100 characters or fewer never qualifies.
C8_ParagraphScan ==
    (Extracted /\ MethodsOneToThreeEmpty) =>
      /\ IF Yield4Token # <<>> THEN abstract = Some(Yield4Token)
         ELSE ~Truthy(abstract)
      /\ Truthy(abstract) => Len(abstract.val) > MinParagraphLen

\* C8 witness: a paragraph of class abstract-content and one of exactly 100
\* characters are passed over, a later one whose id contains "abstract" is taken.
C8_Witness ==
    /\ Extracted
    /\ Len(soup) = 3
    /\ soup[1] = Para(<<S_abstract_content>>, <<>>, Pad("z", MinParagraphLen + 1))
    /\ soup[2] = Para(<<S_main, S_abstract>>, <<>>,
                      <<" ">> \o Pad("x", MinParagraphLen) \o <<"\n">>)
    /\ soup[3].id = S_my_abstract_1
    /\ abstract = Some(Pad("y", MinParagraphLen + 1))

====
